---- MODULE Spec2Model ----
(***************************************************************************)
(* FreeFall_Object: the PID train / falling ball simulation                *)
(* (scripts/generate_random_scenarios.py) and the catch evaluation of its  *)
(* consumers (scripts/animate_realtime.py, analyze_random_scenarios.py).   *)
(*                                                                         *)
(* Numbers.  The scripts compute in float64.  The model computes in fixed  *)
(* point: every real quantity x is held as the integer x * Scale, products *)
(* and quotients are rounded toward zero to that resolution (FMul, FDiv).  *)
(* Angles are in degrees * Scale; the trigonometric functions are tables   *)
(* over the angles the inputs use.                                         *)
(***************************************************************************)
EXTENDS Integers, Sequences, FiniteSets, TLC

\* Python's None, and a value that is not None
None == <<>>

Some(x) == <<x>>

The(o) == o[1]

NoException == "None"

(***************************************************************************)
(* Fixed-point arithmetic                                                  *)
(***************************************************************************)
Scale == 10000

Abs(x) == IF x < 0 THEN -x ELSE x

Sign(x) == IF x < 0 THEN -1 ELSE 1

\* a * b for a, b >= 0, split so that no intermediate product leaves 32 bits
FMulNat(a, b) ==
    LET qa == a \div Scale
        ra == a % Scale
        qb == b \div Scale
        rb == b % Scale
    IN  qa * b + ra * qb + ((ra * rb) \div Scale)

\* float multiplication a * b
FMul(a, b) == Sign(a) * Sign(b) * FMulNat(Abs(a), Abs(b))

\* a / b for a >= 0, b > 0: long division, one decimal digit of Scale at a time
FDivNat(a, b) ==
    LET r0 == a % b
        r1 == (r0 * 10) % b
        r2 == (r1 * 10) % b
        r3 == (r2 * 10) % b
    IN  (a \div b) * Scale + ((r0 * 10) \div b) * 1000 + ((r1 * 10) \div b) * 100
          + ((r2 * 10) \div b) * 10 + ((r3 * 10) \div b)

\* float division a / b, b # 0
FDiv(a, b) == Sign(a) * Sign(b) * FDivNat(Abs(a), Abs(b))

\* Python int(x): truncation toward zero, as a plain integer
PyInt(x) == Sign(x) * (Abs(x) \div Scale)

\* a plain integer n as a float
Flt(n) == n * Scale

(***************************************************************************)
(* Module constants of generate_random_scenarios.py (each * Scale)         *)
(***************************************************************************)
g == 98100
dt_shipped == 200
simulation_time == 400000
Kp == 450000
Ki == 5000
Kd == 250000
m_shipped == 100000
mu == 1000

Half == 5000
FrictionDeadBand == 100

(***************************************************************************)
(* np.deg2rad followed by np.tan / np.cos / np.sin, tabulated              *)
(***************************************************************************)
Tan(angle_deg) ==
    CASE angle_deg = 0      -> 0
      [] angle_deg = 300000 -> 5774
      [] angle_deg = 450000 -> 10000

Cos(angle_deg) ==
    CASE angle_deg = 0      -> 10000
      [] angle_deg = 300000 -> 8660
      [] angle_deg = 450000 -> 7071

Sin(angle_deg) ==
    CASE angle_deg = 0      -> 0
      [] angle_deg = 300000 -> 5000
      [] angle_deg = 450000 -> 7071

(***************************************************************************)
(* Inputs.  A scenario is the argument list of simulate_scenario together  *)
(* with the module settings dt and m it reads:                             *)
(*   <<angle_deg, ball_x, ball_y_initial, train_x_initial, dt, m>>         *)
(* Scenarios 1..3 and 7 lie in the ranges main() draws from.               *)
(***************************************************************************)
NumScenarios == 16

ScenarioTable ==
    << <<0,      400000, 1000000, 200000, dt_shipped, m_shipped>>,
       <<300000, 700000, 1000000, 100000, dt_shipped, m_shipped>>,
       <<300000, 700000, 300000,  0,      dt_shipped, m_shipped>>,
       <<300000, 700000, 300000,  670000, dt_shipped, m_shipped>>,
       <<0,      400000, 300000,  600000, dt_shipped, m_shipped>>,
       <<0,      400000, 300000,  400000, dt_shipped, m_shipped>>,
       <<0,      400000, 300000,  0,      dt_shipped, m_shipped>>,
       <<0,      400000, 1000000, 200000, 0,          m_shipped>>,
       <<0,      400000, 1000000, 200000, -dt_shipped, m_shipped>>,
       <<0,      400000, 1000000, 200000, dt_shipped, -m_shipped>>,
       <<0,      400000, 1000000, 200000, 500000,     m_shipped>>,
       <<0,      400000, 1000000, 200000, 500,        m_shipped>>,
       <<0,      10000,  300000,  400000, dt_shipped, m_shipped>>,
       <<0,      400000, 300000,  -50000, dt_shipped, m_shipped>>,
       <<0,      1000000, 1000000, 0,     dt_shipped, m_shipped>>,
       <<0,      401111, 300000,  400000, dt_shipped, m_shipped>>,
       <<450000, 400000, 500000,  100000, dt_shipped, m_shipped>> >>

Min(a, b) == IF a < b THEN a ELSE b

Scenarios == 1..Min(NumScenarios, Len(ScenarioTable))

VARIABLES
    pc,                 \* where simulate_scenario is: call, saved, raised (idle: not called)
    raised,             \* the exception that ended the call, or NoException
    scenario_num, angle_deg, ball_x, ball_y_initial, train_x_initial,
    dt, m,
    iterations,         \* the number of loop bodies the call executed
    to_csv_calls,       \* the number of times the call reached df.to_csv
    history,            \* the calls that returned in this process, in order:
                        \* the arguments of each and the records it wrote
    csv,                \* the file written by to_csv, or None
    metrics,            \* what calculate_metrics returned for csv, or None
    comprehensive,      \* what analyze_comprehensive.py made of csv, or None
    angle_data,         \* what visualize_angles.load_angle_data made of csv, or None
    loaded,             \* RealtimeSimulationAnimation.__init__ done: its fields, or None
    frame_indices,      \* create_realtime_animation: the frames to show, or None
    catch_frame,        \* create_realtime_animation: the frame it reports, or None
    frame_num,          \* the number of animate() calls FuncAnimation has made
    ball_caught_at_frame, ball_caught_y,
    verdict,            \* what animate printed: PENDING, CAUGHT or MISSED
    ball_display_y, distance_text

args == <<scenario_num, angle_deg, ball_x, ball_y_initial, train_x_initial, dt, m>>

simvars == <<pc, raised, args, iterations, to_csv_calls, history>>

animvars == <<loaded, frame_indices, catch_frame, frame_num, ball_caught_at_frame,
              ball_caught_y, verdict, ball_display_y, distance_text>>

readvars == <<comprehensive, angle_data>>

vars == <<simvars, csv, metrics, readvars, animvars>>

(***************************************************************************)
(* simulate_scenario                                                       *)
(***************************************************************************)
num_steps == PyInt(FDiv(simulation_time, dt))

time_array(k) == k * dt

\* np.zeros: the indices lo..hi, each holding 0.0
RECURSIVE zeros_range(_, _)
zeros_range(lo, hi) ==
    IF lo > hi THEN <<>>
    ELSE IF lo = hi THEN lo :> 0
    ELSE zeros_range(lo, (lo + hi) \div 2) @@ zeros_range(((lo + hi) \div 2) + 1, hi)

zeros(n) == zeros_range(0, n - 1)

SetupFault_RejectsSeparation ==
    IF dt = 0 THEN "ZeroDivisionError"
    ELSE IF num_steps < 0 THEN "ValueError"
    ELSE IF train_x_initial >= ball_x THEN "InvalidConfig"
    ELSE NoException

SetupFault_RejectsMass ==
    IF dt = 0 THEN "ZeroDivisionError"
    ELSE IF num_steps < 0 THEN "ValueError"
    ELSE IF m <= 0 THEN "InvalidConfig"
    ELSE NoException

\* What lines 34-56 raise before the loop, or NoException: simulation_time / dt
\* with dt = 0, np.zeros of a negative length, index 0 of an empty array.
SetupFault ==
    IF dt = 0 THEN "ZeroDivisionError"
    ELSE IF num_steps < 0 THEN "ValueError"
    ELSE IF num_steps = 0 THEN "IndexError"
    ELSE NoException

ball_landing_y == FMul(ball_x, Tan(angle_deg))

FreeFall(t) == ball_y_initial - FMul(FMul(Half, g), FMul(t, t))

BallHeight_Unclamped(t) == FreeFall(t)

BallHeight_FirstRowKept(t) ==
    IF t = 0 THEN ball_y_initial
    ELSE IF FreeFall(t) <= ball_landing_y THEN ball_landing_y ELSE FreeFall(t)

BallHeight(t) ==
    IF FreeFall(t) <= ball_landing_y THEN ball_landing_y ELSE FreeFall(t)

PreviousErrorSeed_Zero == Flt(0)

PreviousErrorSeed == ball_x - train_x_initial

IntegralUpdate_NoDt(integral, current_error) == integral + current_error

IntegralUpdate_Clamped(integral, current_error) ==
    LET sum == integral + FMul(current_error, dt)
    IN  IF sum > Flt(100) THEN Flt(100) ELSE IF sum < -Flt(100) THEN -Flt(100) ELSE sum

IntegralUpdate(integral, current_error) == integral + FMul(current_error, dt)

Derivative_AfterUpdate(current_error, previous) ==
    FDiv(current_error - current_error, dt)

Derivative(current_error, previous) == FDiv(current_error - previous, dt)

ControlForce_NoDerivative(current_error, integral, derivative) ==
    FMul(Kp, current_error) + FMul(Ki, integral)

ControlForce(current_error, integral, derivative) ==
    FMul(Kp, current_error) + FMul(Ki, integral) + FMul(Kd, derivative)

Friction_InclusiveBand(v, N) ==
    IF v >= FrictionDeadBand THEN -FMul(mu, N)
    ELSE IF v <= -FrictionDeadBand THEN FMul(mu, N)
    ELSE 0

Friction(v, N) ==
    IF v > FrictionDeadBand THEN -FMul(mu, N)
    ELSE IF v < -FrictionDeadBand THEN FMul(mu, N)
    ELSE 0

IntegralSeed_Carried ==
    IF csv = None THEN Flt(0) ELSE The(csv).error_integral[The(csv).rows - 1]

\* line 59: error_integral = 0.0, a local of the call
IntegralSeed == Flt(0)

\* lines 43-60: the arrays and the PID state before the loop
Locals ==
    [i                       |-> 0,
     train_position          |-> [zeros(num_steps) EXCEPT ![0] = train_x_initial],
     train_velocity          |-> zeros(num_steps),
     train_acceleration      |-> zeros(num_steps),
     ball_position           |-> [zeros(num_steps) EXCEPT ![0] = ball_y_initial],
     applied_force           |-> zeros(num_steps),
     error_derivative_values |-> zeros(num_steps),
     error_integral_values   |-> zeros(num_steps),
     error_integral          |-> IntegralSeed,
     previous_error          |-> PreviousErrorSeed]

\* line 115: the position computed for the next step is behind the origin
OffTrack(position) == position < 0

StoppedVelocity_Kept(velocity) == velocity

\* line 117: the velocity of a train stopped at the origin
StoppedVelocity(velocity) == Flt(0)

LoopContinues_UntilLanded(st) ==
    st.i < num_steps /\ (st.i = 0 \/ st.ball_position[st.i - 1] > ball_landing_y)

\* line 63: for i in range(num_steps)
LoopContinues(st) == st.i < num_steps

F_gravity_UpSlope == FMul(FMul(m, g), Sin(angle_deg))

\* line 98: F_gravity = -m * g * np.sin(angle_rad)
F_gravity == -FMul(FMul(m, g), Sin(angle_deg))

AdvancePosition_Explicit(position, v_old, v_new) == position + FMul(v_old, dt)

\* line 112: train_position[i + 1] = train_position[i] + train_velocity[i + 1] * dt
AdvancePosition(position, v_old, v_new) == position + FMul(v_new, dt)

TrackedError_UntilLanded(st) ==
    IF BallHeight(time_array(st.i)) <= ball_landing_y THEN Flt(0)
    ELSE ball_x - st.train_position[st.i]

\* line 73: current_error = ball_x - train_position[i]
TrackedError(st) == ball_x - st.train_position[st.i]

\* lines 64-119: the body of the loop, on the locals st
LoopBody(st) ==
    LET k == st.i
        current_error == TrackedError(st)
        integral == IntegralUpdate(st.error_integral, current_error)
        error_derivative == Derivative(current_error, st.previous_error)
        F_control == ControlForce(current_error, integral, error_derivative)
        N == FMul(FMul(m, g), Cos(angle_deg))
        F_friction == Friction(st.train_velocity[k], N)
        F_net == F_control + F_friction + F_gravity
        acceleration == FDiv(F_net, m)
        v1 == st.train_velocity[k] + FMul(acceleration, dt)
        s1 == AdvancePosition(st.train_position[k], st.train_velocity[k], v1)
        advance == k < num_steps - 1
        stopped == OffTrack(s1)
    IN  [i                       |-> k + 1,
         train_position          |->
             IF advance
             THEN [st.train_position EXCEPT ![k + 1] = IF stopped THEN 0 ELSE s1]
             ELSE st.train_position,
         train_velocity          |->
             IF advance
             THEN [st.train_velocity EXCEPT
                      ![k + 1] = IF stopped THEN StoppedVelocity(v1) ELSE v1]
             ELSE st.train_velocity,
         train_acceleration      |-> [st.train_acceleration EXCEPT ![k] = acceleration],
         ball_position           |->
             [st.ball_position EXCEPT ![k] = BallHeight(time_array(k))],
         applied_force           |-> [st.applied_force EXCEPT ![k] = F_control],
         error_derivative_values |->
             [st.error_derivative_values EXCEPT ![k] = error_derivative],
         error_integral_values   |-> [st.error_integral_values EXCEPT ![k] = integral],
         error_integral          |-> integral,
         previous_error          |-> current_error]

\* count passes of the loop from the locals st; a pass after the loop has
\* ended changes nothing.  The passes are halved, the first half bound to mid
\* before the second half starts, so that the evaluation nests log(count) deep.
RECURSIVE Passes(_, _)
Passes(st, count) ==
    IF count = 0 THEN st
    ELSE IF count = 1 THEN (IF LoopContinues(st) THEN LoopBody(st) ELSE st)
    ELSE CHOOSE final \in {Passes(mid, count - (count \div 2)) :
                               mid \in {Passes(st, count \div 2)}} : TRUE

\* A filename is held as its prefix, the numbers it carries and the tokens
\* that introduce them: Random_S{S}_A{A}_BallX{BallX}Y{BallY}_TrainX{TrainX}
\* has all three tokens, PID_A{A}_BallX{BallX}_TrainX{TrainX} lacks "Y",
\* PID_Controller_Angle_{A} has none.
AllTokens == {"BallX", "Y", "TrainX"}

\* the filename of line 137: the fields it formats, each through int()
Filename ==
    [prefix  |-> "Random_S",
     S       |-> scenario_num,
     A       |-> PyInt(angle_deg),
     BallX   |-> PyInt(ball_x),
     BallY   |-> PyInt(ball_y_initial),
     TrainX  |-> PyInt(train_x_initial),
     tokens  |-> AllTokens]

\* the column names of lines 122-131, in order
FullColumns ==
    <<"time", "train_position", "falling_object_position", "applied_force",
      "train_velocity", "train_acceleration", "error_derivative", "error_integral">>

\* lines 121-131: the DataFrame of the eight arrays
DataFrame(st) ==
    [name                    |-> Filename,
     columns                 |-> FullColumns,
     rows                    |-> num_steps,
     time                    |-> [k \in 0..(num_steps - 1) |-> time_array(k)],
     train_position          |-> st.train_position,
     falling_object_position |-> st.ball_position,
     applied_force           |-> st.applied_force,
     train_velocity          |-> st.train_velocity,
     train_acceleration      |-> st.train_acceleration,
     error_derivative        |-> st.error_derivative_values,
     error_integral          |-> st.error_integral_values]

NoConsumer ==
    /\ metrics = None
    /\ comprehensive = None
    /\ angle_data = None
    /\ loaded = None
    /\ frame_indices = None
    /\ catch_frame = None
    /\ frame_num = 0
    /\ ball_caught_at_frame = None
    /\ ball_caught_y = None
    /\ verdict = "PENDING"
    /\ ball_display_y = None
    /\ distance_text = ""

Init ==
    /\ pc = "call"
    /\ raised = NoException
    /\ \E k \in Scenarios :
          /\ scenario_num = k
          /\ angle_deg = ScenarioTable[k][1]
          /\ ball_x = ScenarioTable[k][2]
          /\ ball_y_initial = ScenarioTable[k][3]
          /\ train_x_initial = ScenarioTable[k][4]
          /\ dt = ScenarioTable[k][5]
          /\ m = ScenarioTable[k][6]
    /\ iterations = 0
    /\ to_csv_calls = 0
    /\ history = <<>>
    /\ csv = None
    /\ NoConsumer

\* the arguments of the call, without the number that only names the file
Configuration == <<angle_deg, ball_x, ball_y_initial, train_x_initial, dt, m>>

\* the eight columns of a DataFrame, without the name of its file
RecordSequence(f) ==
    <<f.rows, f.time, f.train_position, f.falling_object_position, f.applied_force,
      f.train_velocity, f.train_acceleration, f.error_derivative, f.error_integral>>

\* lines 121-145 when to_csv writes the file: the locals returned by the loop
\* become the file, and the call returns
Written(returned) ==
    /\ iterations' = returned.i
    /\ csv' = Some(DataFrame(returned))
    /\ history' = Append(history,
                         [configuration |-> Configuration,
                          records |-> RecordSequence(DataFrame(returned))])
    /\ to_csv_calls' = to_csv_calls + 1
    /\ pc' = "saved"
    /\ UNCHANGED <<args, raised, metrics, readvars, animvars>>

\* simulate_scenario, a call that returns: the loop to its end, then to_csv
Simulate ==
    /\ pc = "call"
    /\ SetupFault = NoException
    /\ \E returned \in {Passes(Locals, num_steps)} : Written(returned)

\* simulate_scenario, a call that raises in lines 40-54
Abort ==
    /\ pc = "call"
    /\ SetupFault # NoException
    /\ pc' = "raised"
    /\ raised' = SetupFault
    /\ UNCHANGED <<args, iterations, to_csv_calls, history, csv, metrics, readvars,
                   animvars>>

(***************************************************************************)
(* main: the calls of simulate_scenario one after another in one process,  *)
(* with a sink (the csv_data directory) that may refuse the write.         *)
(***************************************************************************)
\* the number of scenarios main generates (10 at line 159), bounded
MaxRuns == 3

\* lines 161-171: what the random draws of one iteration may give: the angle
\* (0 to 45), ball_x (20 to 100), ball_y_initial (30 to 100), and the value
\* of random() behind the draw of train_x_initial
MainDraws ==
    { <<0,      Flt(40), Flt(100), 9999>>,
      <<300000, Flt(70), Flt(30),  0>>,
      <<0,      Flt(20), Flt(30),  5000>> }

TrainMargin == 200000

max_train_x_NoMargin(ball) == IF ball > 0 THEN ball ELSE 0

\* line 170: max_train_x = max(0, ball_x - 20)
max_train_x(ball) == IF ball - TrainMargin > 0 THEN ball - TrainMargin ELSE 0

\* random.uniform(a, b) is a + (b - a) * random(), with random() = u
Uniform(a, b, u) == a + FMul(b - a, u)

\* the module's dt in the process that runs main: as shipped, or zero
MainTimeSteps == {dt_shipped, Flt(0)}

\* what df.to_csv may raise when the file cannot be opened for writing
SinkFailures == {"OSError"}

Unhandled_Swallowed(exception) == NoException

\* lines 133-145 and line 174: neither simulate_scenario nor main has a try
\* around to_csv or around the call, so what is raised leaves both unchanged
Unhandled(exception) == exception

\* lines 121-140 when to_csv raises: the loop has run, no file is written
Refused(returned) ==
    /\ iterations' = returned.i
    /\ to_csv_calls' = to_csv_calls + 1
    /\ \E failure \in SinkFailures :
          /\ raised' = Unhandled(failure)
          /\ pc' = IF Unhandled(failure) = NoException THEN "saved" ELSE "raised"
    /\ UNCHANGED <<args, history, csv, metrics, readvars, animvars>>

\* simulate_scenario called by main, a call that passes lines 34-56: the loop
\* to its end, then to_csv, which writes the file or raises
SimulateSink ==
    /\ pc = "call"
    /\ SetupFault = NoException
    /\ \E returned \in {Passes(Locals, num_steps)} :
          Written(returned) \/ Refused(returned)

\* lines 159-174: the next iteration of main's loop, after a call returned
NextScenario ==
    /\ pc = "saved"
    /\ scenario_num < MaxRuns
    /\ scenario_num' = scenario_num + 1
    /\ \E draw \in MainDraws :
          /\ angle_deg' = draw[1]
          /\ ball_x' = draw[2]
          /\ ball_y_initial' = draw[3]
          /\ train_x_initial' = Uniform(0, max_train_x(draw[2]), draw[4])
    /\ pc' = "call"
    /\ iterations' = 0
    /\ to_csv_calls' = 0
    /\ UNCHANGED <<dt, m, raised, history, csv, metrics, readvars, animvars>>

InitMain ==
    /\ pc = "call"
    /\ raised = NoException
    /\ scenario_num = 1
    /\ \E draw \in MainDraws :
          /\ angle_deg = draw[1]
          /\ ball_x = draw[2]
          /\ ball_y_initial = draw[3]
          /\ train_x_initial = Uniform(0, max_train_x(draw[2]), draw[4])
    /\ dt \in MainTimeSteps
    /\ m = m_shipped
    /\ iterations = 0
    /\ to_csv_calls = 0
    /\ history = <<>>
    /\ csv = None
    /\ NoConsumer

NextMain == SimulateSink \/ Abort \/ NextScenario

SpecMain == InitMain /\ [][NextMain]_vars

(***************************************************************************)
(* Consumers of the file: analyze_random_scenarios.py, animate_realtime.py *)
(***************************************************************************)
MetricsSurfaceTolerance == 10000
MetricsCatchDistance == 30000
CatchFrameHorizontal == 20000
CatchFrameVertical == 50000
SurfaceTolerance == 10000
CatchDistance == 30000
fps == 300000
speed == 10000

\* the first row k of 0..(n - 1) with hit[k], or None: a for loop over the
\* rows left by break at the first row that passes the test
FirstRow(hit, n) ==
    IF \E k \in 0..(n - 1) : hit[k]
    THEN Some(CHOOSE k \in 0..(n - 1) : hit[k] /\ \A j \in 0..(k - 1) : ~hit[j])
    ELSE None

\* df[name] raises KeyError unless the header of the file has the name
HasColumn(f, name) == \E c \in 1..Len(f.columns) : f.columns[c] = name

MissingColumn(f, names) == \E c \in 1..Len(names) : ~HasColumn(f, names[c])

\* a field formatted with :02d / :03d is matched by (\d+) unless it is negative
Digits(n) == n >= 0

\* analyze_random_scenarios.parse_filename
parse_filename(name) ==
    IF /\ name.prefix = "Random_S"
       /\ name.tokens = AllTokens
       /\ Digits(name.S) /\ Digits(name.A) /\ Digits(name.BallX)
       /\ Digits(name.BallY) /\ Digits(name.TrainX)
    THEN Some([scenario |-> name.S, angle |-> name.A, ball_x |-> name.BallX,
               ball_y |-> name.BallY, train_x |-> name.TrainX])
    ELSE None

\* calculate_metrics, line 59-61: the test of one row
MetricsCatch(train_x, ball_y, target_x, landing_y) ==
    /\ ball_y <= landing_y + MetricsSurfaceTolerance
    /\ Abs(train_x - target_x) <= MetricsCatchDistance

\* analyze_random_scenarios.calculate_metrics (caught, catch_time, catch_distance)
calculate_metrics(file) ==
    LET params == parse_filename(file.name)
        target_x == Flt(The(params).ball_x)
        landing_y == FMul(target_x, Tan(Flt(The(params).angle)))
        Hit(k) == MetricsCatch(file.train_position[k],
                               file.falling_object_position[k], target_x, landing_y)
        first == FirstRow([k \in 0..(file.rows - 1) |-> Hit(k)], file.rows)
    IN  IF params = None
        THEN [raised |-> "TypeError", caught |-> FALSE, catch_time |-> None,
              catch_distance |-> None]
        ELSE IF first = None
        THEN [raised |-> NoException, caught |-> FALSE, catch_time |-> None,
              catch_distance |-> None]
        ELSE [raised |-> NoException, caught |-> TRUE,
              catch_time |-> Some(file.time[The(first)]),
              catch_distance |-> Some(Abs(file.train_position[The(first)] - target_x))]

\* analyze_random_scenarios.load_scenario_data: all eight columns by name
load_scenario_data(f) ==
    IF MissingColumn(f, FullColumns) THEN "KeyError" ELSE NoException

\* analyze_random_scenarios.main line 423: glob('Random_*.csv')
RandomGlob(name) == name.prefix = "Random_S"

\* main, lines 423-441, for one file of csv_data: selected by the glob, then
\* load_scenario_data, then calculate_metrics
analyze_random(f) ==
    IF ~RandomGlob(f.name)
    THEN [selected |-> FALSE, raised |-> NoException, caught |-> FALSE,
          catch_time |-> None, catch_distance |-> None]
    ELSE IF load_scenario_data(f) # NoException
    THEN [selected |-> TRUE, raised |-> load_scenario_data(f), caught |-> FALSE,
          catch_time |-> None, catch_distance |-> None]
    ELSE [selected |-> TRUE] @@ calculate_metrics(f)

CalculateMetrics ==
    /\ csv # None
    /\ metrics = None
    /\ metrics' = Some(analyze_random(The(csv)))
    /\ UNCHANGED <<simvars, csv, readvars, animvars>>

\* analyze_comprehensive.py line 21: glob("PID_A*.csv")
ComprehensiveGlob(name) == name.prefix = "PID_A"

\* analyze_comprehensive.py line 39: the whole name must be
\* PID_A(\d+)_BallX(\d+)_TrainX(\d+).csv
ComprehensiveMatch(name) ==
    /\ name.prefix = "PID_A"
    /\ name.tokens = {"BallX", "TrainX"}
    /\ Digits(name.A) /\ Digits(name.BallX) /\ Digits(name.TrainX)

\* the columns line 55 selects by name
ComprehensiveColumns ==
    <<"time", "train_position", "falling_object_position", "applied_force">>

\* the position in the header of the column called name
ColumnIndex(f, name) == CHOOSE c \in 1..Len(f.columns) : f.columns[c] = name

\* lines 49-56: the positions of the file's columns that come to be called
\* time, train_x, ball_y and force
ComprehensiveLabels(f) ==
    IF Len(f.columns) = 4
    THEN [time |-> 1, train_x |-> 2, ball_y |-> 3, force |-> 4]
    ELSE [time    |-> ColumnIndex(f, "time"),
          train_x |-> ColumnIndex(f, "train_position"),
          ball_y  |-> ColumnIndex(f, "falling_object_position"),
          force   |-> ColumnIndex(f, "applied_force")]

NoLabels == [time |-> 0, train_x |-> 0, ball_y |-> 0, force |-> 0]

\* the values of the column at position c of the file
ColumnData(f, c) ==
    CASE c = 1 -> f.time
      [] c = 2 -> f.train_position
      [] c = 3 -> f.falling_object_position
      [] c = 4 -> f.applied_force
      [] c = 5 -> f.train_velocity
      [] c = 6 -> f.train_acceleration
      [] c = 7 -> f.error_derivative
      [] c = 8 -> f.error_integral

ArrivalDistance == 20000

\* lines 58-87: caught when the train is within 2.0 m of ball_x no later than
\* the ball is at or below the surface
ComprehensiveCaught(f, labels, target_x, angle) ==
    LET time == ColumnData(f, labels.time)
        train_x == ColumnData(f, labels.train_x)
        ball_y == ColumnData(f, labels.ball_y)
        landing_y == FMul(target_x, Tan(angle))
        ball_landed_idx ==
            FirstRow([k \in 0..(f.rows - 1) |-> ball_y[k] <= landing_y], f.rows)
        train_at_target ==
            FirstRow([k \in 0..(f.rows - 1) |->
                         Abs(train_x[k] - target_x) <= ArrivalDistance], f.rows)
    IN  /\ train_at_target # None
        /\ ball_landed_idx # None
        /\ time[The(train_at_target)] <= time[The(ball_landed_idx)]

\* analyze_comprehensive.py lines 33-104 for one file of csv_data: selected by
\* the glob, matched by the pattern, read (an exception is caught at line
\* 102 and the file is left out of results)
analyze_comprehensive(f) ==
    LET name == f.name
        outside == [selected |-> ComprehensiveGlob(name), matched |-> FALSE,
                    raised |-> NoException, in_results |-> FALSE,
                    angle |-> None, ball_x |-> None, train_x_initial |-> None,
                    labels |-> NoLabels, caught |-> FALSE]
    IN  IF ~ComprehensiveGlob(name) \/ ~ComprehensiveMatch(name) THEN outside
        ELSE IF Len(f.columns) # 4 /\ MissingColumn(f, ComprehensiveColumns)
        THEN [outside EXCEPT !.matched = TRUE, !.raised = "KeyError",
                             !.angle = Some(Flt(name.A)),
                             !.ball_x = Some(Flt(name.BallX)),
                             !.train_x_initial = Some(Flt(name.TrainX))]
        ELSE [outside EXCEPT !.matched = TRUE, !.in_results = TRUE,
                             !.angle = Some(Flt(name.A)),
                             !.ball_x = Some(Flt(name.BallX)),
                             !.train_x_initial = Some(Flt(name.TrainX)),
                             !.labels = ComprehensiveLabels(f),
                             !.caught = ComprehensiveCaught(f, ComprehensiveLabels(f),
                                                            Flt(name.BallX),
                                                            Flt(name.A))]

AnalyzeComprehensive ==
    /\ csv # None
    /\ metrics # None
    /\ comprehensive = None
    /\ comprehensive' = Some(analyze_comprehensive(The(csv)))
    /\ UNCHANGED <<simvars, csv, metrics, angle_data, animvars>>

\* visualize_angles.load_angle_data line 15
VisualizedAngles == {0, 10, 15, 22, 30, 36, 45, 64, 77, 85}

\* lines 20-22: the file is one of PID_Controller_Angle_{angle:02d}.csv
AngleFile(name) ==
    name.prefix = "PID_Controller_Angle_" /\ name.A \in VisualizedAngles

\* visualize_angles.load_angle_data for one file of csv_data: line 25 names
\* the columns by position and raises unless there are four of them
load_angle_data(f) ==
    IF ~AngleFile(f.name)
    THEN [selected |-> FALSE, raised |-> NoException, labels |-> NoLabels]
    ELSE IF Len(f.columns) # 4
    THEN [selected |-> TRUE, raised |-> "ValueError", labels |-> NoLabels]
    ELSE [selected |-> TRUE, raised |-> NoException,
          labels |-> [time |-> 1, train_x |-> 2, ball_y |-> 3, force |-> 4]]

LoadAngleData ==
    /\ csv # None
    /\ comprehensive # None
    /\ angle_data = None
    /\ angle_data' = Some(load_angle_data(The(csv)))
    /\ UNCHANGED <<simvars, csv, metrics, comprehensive, animvars>>

\* np.max of a column
ColumnMax(col, n) == CHOOSE x \in {col[k] : k \in 0..(n - 1)} :
                        \A k \in 0..(n - 1) : col[k] <= x

\* the columns lines 92-95 read by name
AnimationColumns ==
    <<"time", "train_position", "falling_object_position", "applied_force">>

\* RealtimeSimulationAnimation.__init__: the filename branches (lines 33-88),
\* the columns read by name (lines 91-95) and the fallbacks (lines 101-117)
AnimationFields(file) ==
    LET name == file.name
        random == name.prefix = "Random_S"
        pid == name.prefix = "PID_A"
        old == name.prefix = "PID_Controller_Angle_"
        angle_match == (random \/ pid \/ old) /\ Digits(name.A)
        ball_x_match == /\ \/ random /\ "Y" \in name.tokens /\ Digits(name.BallY)
                           \/ pid
                        /\ "BallX" \in name.tokens /\ Digits(name.BallX)
        ball_y_match == random /\ ball_x_match
        train_match == (random \/ pid) /\ "TrainX" \in name.tokens /\ Digits(name.TrainX)
    IN  IF MissingColumn(file, AnimationColumns)
        THEN [raised |-> "KeyError", angle |-> 0, ball_x_position |-> 0,
              ball_y_initial |-> 0, train_x_initial |-> 0]
        ELSE [raised          |-> NoException,
              angle           |-> IF angle_match THEN Flt(name.A) ELSE 0,
              ball_x_position |-> IF ball_x_match THEN Flt(name.BallX)
                                  ELSE ColumnMax(file.train_position, file.rows),
              ball_y_initial  |-> IF ball_y_match THEN Flt(name.BallY)
                                  ELSE file.falling_object_position[0],
              train_x_initial |-> IF train_match THEN Flt(name.TrainX)
                                  ELSE file.train_position[0]]

\* The consumers only read the file; the model runs the analyses first, in
\* the order of the definitions, and the animation after them.
AnimInit ==
    /\ csv # None
    /\ angle_data # None
    /\ loaded = None
    /\ loaded' = Some(AnimationFields(The(csv)))
    /\ UNCHANGED <<simvars, csv, metrics, readvars, frame_indices, catch_frame, frame_num,
                   ball_caught_at_frame, ball_caught_y, verdict, ball_display_y,
                   distance_text>>

file == The(csv)

obj_x_position == The(loaded).ball_x_position

\* create_realtime_animation line 182, animate line 430
surface_y_at_ball_x == FMul(obj_x_position, Tan(The(loaded).angle))

\* line 312, and lines 136, 143 and 464: error = self.obj_pos - self.train_pos,
\* the series plotted as 'horizontal error [m]'; row k of it
AnimationError(k) == file.falling_object_position[k] - file.train_position[k]

\* line 359
frame_skip ==
    LET n == file.rows
        per_frame == FDiv(FMul(file.time[n - 1], fps), speed)
        skip == PyInt(FDiv(Flt(n), per_frame))
    IN  IF skip > 1 THEN skip ELSE 1

\* line 375: the test of the frame the animation stops at
CatchFrameTest(train_x, obj_y, target_x, landing_y) ==
    /\ Abs(train_x - target_x) < CatchFrameHorizontal
    /\ Abs(obj_y - landing_y) < CatchFrameVertical

\* lines 363-380
FindCatchFrame ==
    LET Hit(k) == CatchFrameTest(file.train_position[k], file.falling_object_position[k],
                                 obj_x_position, surface_y_at_ball_x)
    IN  FirstRow([k \in 0..(file.rows - 1) |-> Hit(k)], file.rows)

\* range(0, n, skip) as a list
RangeList(n, skip) == [j \in 1..((n + skip - 1) \div skip) |-> (j - 1) * skip]

\* lines 360, 383-387: the frames kept, in increasing order
FrameIndices(n, skip, cf) ==
    IF cf = None THEN RangeList(n, skip)
    ELSE LET kept == RangeList(The(cf) + 1, skip)
         IN  IF kept[Len(kept)] = The(cf) THEN kept ELSE Append(kept, The(cf))

\* create_realtime_animation up to the definition of animate
AnimPrepare ==
    /\ loaded # None
    /\ The(loaded).raised = NoException
    /\ frame_indices = None
    /\ catch_frame' = FindCatchFrame
    /\ frame_indices' = Some(FrameIndices(file.rows, frame_skip, catch_frame'))
    /\ frame_num' = 0
    /\ ball_caught_at_frame' = None
    /\ ball_caught_y' = None
    /\ UNCHANGED <<simvars, csv, metrics, readvars, loaded, verdict, ball_display_y,
                   distance_text>>

EvaluatorPending_Always(caught_at) == TRUE

\* line 433
EvaluatorPending(caught_at) == caught_at = None

\* lines 435-438
CatchTest(train_x, obj_y, target_x, landing_y) ==
    /\ obj_y <= landing_y + SurfaceTolerance
    /\ Abs(train_x - target_x) < CatchDistance

\* line 455
MissTest(obj_y, landing_y) == obj_y < landing_y

BallDisplay_NotFrozen(held, caught_y, obj_y, surface) ==
    IF MissTest(obj_y, surface) THEN Some(surface) ELSE Some(obj_y)

\* lines 446-454: the height the ball is drawn at; caught_y is ball_caught_y
\* once the evaluator holds the ball
BallDisplay(held, caught_y, obj_y, surface) ==
    IF held THEN caught_y
    ELSE IF MissTest(obj_y, surface) THEN Some(surface) ELSE Some(obj_y)

\* lines 515-532: the text shown for frame idx
StatusText(caught_at, idx, train_x, target_x) ==
    IF caught_at # None /\ idx >= The(caught_at)
    THEN IF Abs(train_x - target_x) < CatchDistance THEN "CAUGHT!" ELSE "MISSED!"
    ELSE "falling"

\* animate(frame_num), called by FuncAnimation for frame 0, 1, ... in turn
Animate ==
    /\ frame_indices # None
    /\ frame_num < Len(The(frame_indices))
    /\ LET idx == The(frame_indices)[frame_num + 1]
           train_x_current == file.train_position[idx]
           obj_y_current == file.falling_object_position[idx]
           surface == surface_y_at_ball_x
           catches == /\ EvaluatorPending(ball_caught_at_frame)
                      /\ CatchTest(train_x_current, obj_y_current, obj_x_position, surface)
           held == ~EvaluatorPending(ball_caught_at_frame) \/ catches
           misses == ~held /\ MissTest(obj_y_current, surface)
           caught_at == IF catches \/ misses THEN Some(idx) ELSE ball_caught_at_frame
       IN  /\ ball_caught_at_frame' = caught_at
           /\ ball_caught_y' = IF catches \/ misses THEN Some(surface) ELSE ball_caught_y
           /\ verdict' = IF catches THEN "CAUGHT"
                         ELSE IF misses THEN "MISSED" ELSE verdict
           /\ ball_display_y' = BallDisplay(held, ball_caught_y', obj_y_current, surface)
           /\ distance_text' = StatusText(caught_at, idx, train_x_current, obj_x_position)
    /\ frame_num' = frame_num + 1
    /\ UNCHANGED <<simvars, csv, metrics, readvars, loaded, frame_indices, catch_frame>>

Consume ==
    \/ CalculateMetrics \/ AnalyzeComprehensive \/ LoadAngleData
    \/ AnimInit \/ AnimPrepare \/ Animate

Next == Simulate \/ Abort \/ Consume

Spec == Init /\ [][Next]_vars

(***************************************************************************)
(* The animation on its own: a file of a few rows whose train positions    *)
(* and ball heights are drawn from small sets around the target            *)
(* (ball_x = 10 m, flat surface), sampled at 1 Hz.                         *)
(***************************************************************************)
MaxRows == 3

ExternalTrain == {60000, 75000, 90000}
ExternalHeight == {80000, 5000, 0, -10000}

ExternalName ==
    [prefix |-> "Random_S", S |-> 1, A |-> 0, BallX |-> 10, BallY |-> 8, TrainX |-> 6,
     tokens |-> AllTokens]

ExternalFile(n, train, height) ==
    [name                    |-> ExternalName,
     columns                 |-> FullColumns,
     rows                    |-> n,
     time                    |-> [k \in 0..(n - 1) |-> Flt(k)],
     train_position          |-> train,
     falling_object_position |-> height,
     applied_force           |-> zeros(n),
     train_velocity          |-> zeros(n),
     train_acceleration      |-> zeros(n),
     error_derivative        |-> zeros(n),
     error_integral          |-> zeros(n)]

InitAnim ==
    /\ pc = "idle"
    /\ raised = NoException
    /\ scenario_num = 0
    /\ angle_deg = 0
    /\ ball_x = 0
    /\ ball_y_initial = 0
    /\ train_x_initial = 0
    /\ dt = dt_shipped
    /\ m = m_shipped
    /\ iterations = 0
    /\ to_csv_calls = 0
    /\ history = <<>>
    /\ \E n \in 2..MaxRows :
         \E train \in [0..(n - 1) -> ExternalTrain] :
           \E height \in [0..(n - 1) -> ExternalHeight] :
              csv = Some(ExternalFile(n, train, height))
    /\ NoConsumer

SpecAnim == InitAnim /\ [][Consume]_vars

(***************************************************************************)
(* The readers on their own: a file of a few rows under each filename      *)
(* shape and each header the readers may meet.                             *)
(***************************************************************************)
\* the legacy header, and the first four columns of the full one
LegacyColumns == <<"time", "train_x", "ball_y", "force">>

ProjectedColumns ==
    <<"time", "train_position", "falling_object_position", "applied_force">>

ReadHeaders == {FullColumns, LegacyColumns, ProjectedColumns}

\* Random_S01_A30_BallX010Y008_TrainX006, Random_S01_A30_BallX010_TrainX006,
\* PID_A30_BallX010Y008_TrainX006, PID_A30_BallX010_TrainX006,
\* PID_Controller_Angle_30
ReadNames ==
    LET base == [prefix |-> "Random_S", S |-> 1, A |-> 30, BallX |-> 10, BallY |-> 8,
                 TrainX |-> 6, tokens |-> AllTokens]
    IN  {base,
         [base EXCEPT !.tokens = {"BallX", "TrainX"}],
         [base EXCEPT !.prefix = "PID_A"],
         [base EXCEPT !.prefix = "PID_A", !.tokens = {"BallX", "TrainX"}],
         [base EXCEPT !.prefix = "PID_Controller_Angle_", !.tokens = {}]}

InitRead ==
    /\ pc = "idle"
    /\ raised = NoException
    /\ scenario_num = 0
    /\ angle_deg = 0
    /\ ball_x = 0
    /\ ball_y_initial = 0
    /\ train_x_initial = 0
    /\ dt = dt_shipped
    /\ m = m_shipped
    /\ iterations = 0
    /\ to_csv_calls = 0
    /\ history = <<>>
    /\ \E n \in 2..(MaxRows - 1) :
         \E train \in [0..(n - 1) -> ExternalTrain] :
           \E height \in [0..(n - 1) -> ExternalHeight] :
             \E name \in ReadNames :
               \E header \in ReadHeaders :
                 csv = Some([ExternalFile(n, train, height) EXCEPT
                                !.name = name, !.columns = header])
    /\ NoConsumer

SpecRead == InitRead /\ [][Consume]_vars

(***************************************************************************)
(* Properties                                                              *)
(***************************************************************************)
Saved == pc = "saved"

\* the file has just been written: no consumer has read it yet
JustSaved == pc = "saved" /\ metrics = None

e0 == ball_x - train_x_initial

\* C1: simulate_scenario never stops early: when it writes the file it has
\* executed num_steps = simulation_time / dt iterations, the file has one row
\* per iteration, and with the shipped constants that is 2000 rows.
C1_FullRun ==
    Saved => /\ iterations = num_steps
             /\ file.rows = iterations
             /\ DOMAIN file.train_position = 0..(iterations - 1)
             /\ (dt = dt_shipped => file.rows = 2000)

\* a run of 2000 rows whose ball has landed and whose train is at the target
\* long before the last row
C1_Witness ==
    /\ JustSaved
    /\ file.rows = 2000
    /\ file.falling_object_position[1000] = ball_landing_y
    /\ Abs(file.train_position[1000] - ball_x) < CatchDistance

\* the height of row k against row k - 1
FallsOrRests(y, k) ==
    /\ y[k] <= y[k - 1]
    /\ (y[k - 1] <= ball_landing_y => y[k - 1] = ball_landing_y /\ y[k] = ball_landing_y)

\* C2: falling_object_position never rises from one record to the next, and
\* from the first record at landing_surface_y on it stays equal to it.
C2_BallFallsThenRests ==
    JustSaved => \A k \in 1..(file.rows - 1) :
                    FallsOrRests(file.falling_object_position, k)

\* the ball starts above the surface and lies on it at the end
C2_Witness ==
    /\ JustSaved
    /\ file.falling_object_position[0] > ball_landing_y
    /\ file.falling_object_position[1] < file.falling_object_position[0]
    /\ file.falling_object_position[file.rows - 1] = ball_landing_y

\* C3 as stated: the error_integral of the first record is 0.
C3_AsClaimed == Saved => file.error_integral[0] = 0

\* C3 amended: the error_integral of the first record is the integral after
\* its first update, (ball_x - train_x_initial) * dt.
C3_FirstIntegral == Saved => file.error_integral[0] = FMul(e0, dt)

C3_Witness == JustSaved /\ e0 > 0 /\ file.error_integral[0] > 0

\* C4: the error_derivative of the first record is 0 (previous_error is
\* seeded with the first error), and the first control force is
\* Kp * e + Ki * integral, without a derivative term.
C4_FirstDerivativeZero ==
    Saved =>
       /\ file.error_derivative[0] = 0
       /\ file.applied_force[0] = FMul(Kp, e0) + FMul(Ki, file.error_integral[0])

C4_Witness ==
    /\ JustSaved
    /\ e0 # 0
    /\ file.error_derivative[0] = 0
    /\ file.error_derivative[1] # 0

\* C5: once ball_caught_at_frame is set no later frame sets it again or
\* clears it, and what animate printed (CAUGHT or MISSED) stays what it was;
\* the evaluator is PENDING exactly as long as ball_caught_at_frame is None.
C5_TerminalOnce ==
    [][/\ (ball_caught_at_frame # None =>
              /\ ball_caught_at_frame' = ball_caught_at_frame
              /\ verdict' = verdict)
       /\ ((verdict' = "PENDING") <=> (ball_caught_at_frame' = None))]_vars

\* a frame after a miss at which the train is in reach and the ball down
C5_Witness ==
    /\ verdict = "MISSED"
    /\ frame_num >= 2
    /\ LET idx == The(frame_indices)[frame_num]
       IN  /\ idx > The(ball_caught_at_frame)
           /\ CatchTest(file.train_position[idx], file.falling_object_position[idx],
                        obj_x_position, surface_y_at_ball_x)

\* C6 as stated: the CAUGHT! / MISSED! shown for a frame is the one shown
\* for every later frame.
C6_AsClaimed ==
    [][(distance_text \in {"CAUGHT!", "MISSED!"}) => (distance_text' = distance_text)]_vars

\* the rows of the file as simulate_scenario wrote it
landing_step ==
    LET Landed(k) == file.falling_object_position[k] = ball_landing_y
    IN  FirstRow([k \in 0..(file.rows - 1) |-> Landed(k)], file.rows)

CatchCondition(k) ==
    /\ Abs(file.train_position[k] - ball_x) < CatchDistance
    /\ Abs(file.falling_object_position[k] - ball_landing_y) <= SurfaceTolerance

\* the ball reached the surface at a step where the train was not in reach,
\* and no earlier step met the catch condition
MissedAtLanding ==
    /\ landing_step # None
    /\ \A k \in 0..The(landing_step) : ~CatchCondition(k)

\* C7 as stated: a run whose ball lands while the train is out of reach is
\* never classified caught, by the animation or by calculate_metrics.
C7_AsClaimed ==
    (Saved /\ (verdict = "CAUGHT" \/ (metrics # None /\ The(metrics).caught)))
        => ~MissedAtLanding

first_catch_step ==
    FirstRow([k \in 0..(file.rows - 1) |-> CatchCondition(k)], file.rows)

\* C8 as stated: whoever reports a catch reports the first step at which
\* |s - ball_x| < 3.0 and the ball is within 1.0 of the surface.
C8_AsClaimed ==
    Saved =>
      /\ (metrics # None =>
            /\ The(metrics).caught <=> first_catch_step # None
            /\ The(metrics).caught =>
                  The(metrics).catch_time = Some(file.time[The(first_catch_step)]))
      /\ (verdict = "CAUGHT" => ball_caught_at_frame = first_catch_step)
      /\ (frame_indices # None => catch_frame = first_catch_step)

\* C9 as stated: with train_x_initial >= ball_x no step runs and no file is
\* written.
C9_AsClaimed ==
    train_x_initial >= ball_x /\ pc # "idle" => pc \in {"call", "raised"} /\ csv = None

\* C9 amended: train_x_initial >= ball_x is not checked: a call with it that
\* lines 40-56 let through raises nothing, runs all num_steps iterations and
\* writes the file.
C9_SeparationNotChecked ==
    [][pc = "call" /\ train_x_initial >= ball_x /\ dt > 0 /\ dt <= simulation_time
          => pc' = "saved" /\ raised' = NoException /\ iterations' = num_steps
             /\ csv' # None]_vars

C9_Witness ==
    /\ JustSaved
    /\ train_x_initial >= ball_x
    /\ file.rows = num_steps

NextVelocity(k) == file.train_velocity[k] + FMul(file.train_acceleration[k], dt)

NextPosition(k) == file.train_position[k] + FMul(NextVelocity(k), dt)

RightLabels == [time |-> 1, train_x |-> 2, ball_y |-> 3, force |-> 4]

\* C12 as stated: every reader that takes up a file of the 8-column or of a
\* 4-column schema loads it without an exception and calls its first four
\* columns time, train position, ball height and force.
C12_AsClaimed ==
    /\ (metrics # None /\ The(metrics).selected => The(metrics).raised # "KeyError")
    /\ (comprehensive # None /\ The(comprehensive).matched =>
          /\ The(comprehensive).raised = NoException
          /\ The(comprehensive).labels = RightLabels)
    /\ (angle_data # None /\ The(angle_data).selected =>
          /\ The(angle_data).raised = NoException
          /\ The(angle_data).labels = RightLabels)
    /\ (loaded # None => The(loaded).raised = NoException)

\* the file's name has one of the two key shapes
KeyedName ==
    /\ file.name.prefix \in {"Random_S", "PID_A"}
    /\ {"BallX", "TrainX"} \subseteq file.name.tokens

\* C13 as stated: a consumer that takes up a file whose name has either key
\* shape, with or without Y{y}, neither skips it nor is left without its
\* parameters: it has the angle, ball_x and train_x0 of the name.
C13_AsClaimed ==
    csv # None /\ KeyedName =>
      /\ (metrics # None /\ The(metrics).selected => The(metrics).raised # "TypeError")
      /\ (comprehensive # None /\ The(comprehensive).selected =>
            /\ The(comprehensive).matched
            /\ The(comprehensive).angle = Some(Flt(file.name.A))
            /\ The(comprehensive).ball_x = Some(Flt(file.name.BallX))
            /\ The(comprehensive).train_x_initial = Some(Flt(file.name.TrainX)))
      /\ (loaded # None /\ The(loaded).raised = NoException =>
            /\ The(loaded).angle = Flt(file.name.A)
            /\ The(loaded).ball_x_position = Flt(file.name.BallX)
            /\ The(loaded).train_x_initial = Flt(file.name.TrainX))

\* the tracking error of row k
TrackingError(k) == ball_x - file.train_position[k]

\* a flat track, the train short of the target, the shipped time step and mass
FlatShippedRun ==
    /\ JustSaved
    /\ angle_deg = 0
    /\ train_x_initial < ball_x
    /\ dt = dt_shipped
    /\ m = m_shipped

\* C15 as stated: in such a run |e| never exceeds its initial value and does
\* not grow over any suffix: the last |e| is no larger than any earlier one.
C15_AsClaimed ==
    FlatShippedRun =>
      \A k \in 0..(file.rows - 1) :
         /\ Abs(TrackingError(k)) <= Abs(e0)
         /\ Abs(TrackingError(file.rows - 1)) <= Abs(TrackingError(k))

\* C15 amended: in such a run |e| never exceeds its initial value and is
\* smaller at the end than at the start, but it is not monotone: the train
\* passes the target (e changes sign) and |e| grows again while it does.
C15_BoundedWithOvershoot ==
    FlatShippedRun =>
      /\ \A k \in 0..(file.rows - 1) : Abs(TrackingError(k)) <= Abs(e0)
      /\ Abs(TrackingError(file.rows - 1)) < Abs(e0)
      /\ \E k \in 1..(file.rows - 2) :
            /\ TrackingError(k) < 0
            /\ Abs(TrackingError(k + 1)) > Abs(TrackingError(k))

C15_Witness ==
    /\ FlatShippedRun
    /\ e0 = Flt(20)
    /\ \E k \in 1..(file.rows - 2) :
          /\ TrackingError(k) < -Flt(1)
          /\ Abs(TrackingError(k + 1)) > Abs(TrackingError(k))
    /\ Abs(TrackingError(file.rows - 1)) < Flt(1)


\* the calls in history at positions a and b
SameConfiguration(a, b) == history[a].configuration = history[b].configuration

\* C16: a run's record sequence depends on its configuration only: any two
\* calls of one process with the same arguments wrote the same records,
\* whatever was simulated before each of them.
C16_RunsIsolated ==
    \A a, b \in 1..Len(history) :
       SameConfiguration(a, b) => history[a].records = history[b].records

\* the same configuration ran first and again after a different one, and a
\* different configuration wrote different records
C16_Witness ==
    /\ Len(history) = 3
    /\ SameConfiguration(1, 3)
    /\ ~SameConfiguration(1, 2)
    /\ history[1].records # history[2].records
    /\ history[1].records[9][history[1].records[1] - 1] # Flt(0)

\* C17: the DataFrame goes to to_csv once per call and only after the loop has
\* run all its iterations; a call is reported as returned only when its file
\* was written; when to_csv raises, the exception ends the call and main with
\* it: the call is not counted among those that returned and main starts no
\* further scenario.
C17_SinkOnceAfterLoop ==
    /\ to_csv_calls <= 1
    /\ (to_csv_calls = 1 => pc # "call" /\ iterations = num_steps)
    /\ (pc = "saved" =>
           /\ to_csv_calls = 1 /\ raised = NoException
           /\ csv # None /\ file.name.S = scenario_num
           /\ Len(history) = scenario_num
           /\ history[scenario_num].records = RecordSequence(file))
    /\ (pc = "raised" /\ iterations > 0 =>
           /\ raised \in SinkFailures /\ to_csv_calls = 1
           /\ Len(history) = scenario_num - 1
           /\ (csv # None => file.name.S < scenario_num))

\* to_csv raised in the second call of main: the first file is there, the
\* second is not
C17_Witness ==
    /\ pc = "raised" /\ raised = "OSError"
    /\ scenario_num = 2 /\ Len(history) = 1
    /\ to_csv_calls = 1 /\ iterations = num_steps
    /\ csv # None /\ file.name.S = 1

\* the sum of e_j * dt over the rows j <= k, from the sum over the rows before
RunningSum(k) ==
    (IF k = 0 THEN 0 ELSE file.error_integral[k - 1]) + FMul(TrackingError(k), dt)

\* Kp * e + Ki * integral + Kd * derivative of row k, from its recorded terms
PidOutput(k) ==
    FMul(Kp, TrackingError(k)) + FMul(Ki, file.error_integral[k])
        + FMul(Kd, file.error_derivative[k])

\* C18: there is no clamping and no anti-windup: in every record the
\* error_integral is the running sum of e_j * dt over the records so far and
\* the applied_force is the PID output itself, whatever their size.
C18_NoAntiWindup ==
    JustSaved =>
       \A k \in 0..(file.rows - 1) :
          /\ file.error_integral[k] = RunningSum(k)
          /\ file.applied_force[k] = PidOutput(k)

\* the train is held at the origin while the error stays: the integral has
\* wound up beyond 1000 m s and the force follows it
C18_Witness ==
    /\ JustSaved
    /\ file.error_integral[file.rows - 1] > Flt(1000)
    /\ file.applied_force[file.rows - 1] > FMul(Kp, TrackingError(file.rows - 1)) + Flt(500)

\* the net force lines 86-101 compute in row k from its recorded control force
NetForce(k) ==
    file.applied_force[k]
        + Friction(file.train_velocity[k], FMul(FMul(m, g), Cos(angle_deg)))
        - FMul(FMul(m, g), Sin(angle_deg))

\* C19: a PID step updates the integral, then takes the derivative against
\* the error of the step before, then the force from the updated integral,
\* and only then stores the error: from the second record on error_derivative
\* is (e_k - e_{k-1}) / dt, and applied_force is the control force, to which
\* friction and gravity are added only for the acceleration.
C19_StepOrder ==
    JustSaved =>
       /\ \A k \in 1..(file.rows - 1) :
             /\ file.error_derivative[k] =
                    FDiv(TrackingError(k) - TrackingError(k - 1), dt)
             /\ file.applied_force[k] =
                    FMul(Kp, TrackingError(k))
                      + FMul(Ki, file.error_integral[k - 1] + FMul(TrackingError(k), dt))
                      + FMul(Kd, FDiv(TrackingError(k) - TrackingError(k - 1), dt))
       /\ \A k \in 0..(file.rows - 1) :
             file.train_acceleration[k] = FDiv(NetForce(k), m)

\* on a slope, in a row where the error changed: the recorded force is not
\* the net force m * a
C19_Witness ==
    /\ JustSaved
    /\ angle_deg > 0
    /\ \E k \in 1..(file.rows - 1) :
          /\ file.error_derivative[k] # 0
          /\ TrackingError(k) # TrackingError(k - 1)
          /\ Abs(file.applied_force[k] - FMul(m, file.train_acceleration[k])) > Flt(1)

\* C20: the recorded height of the ball is ball_y_initial - g t^2 / 2 where
\* that is above ball_x * tan(angle), and ball_x * tan(angle) otherwise, in
\* every record, the first included: no record lies below the surface.
C20_HeightClamped ==
    JustSaved =>
       \A k \in 0..(file.rows - 1) :
          /\ file.falling_object_position[k] >= ball_landing_y
          /\ file.falling_object_position[k] =
                IF FreeFall(file.time[k]) > ball_landing_y
                THEN FreeFall(file.time[k]) ELSE ball_landing_y

\* the ball starts below the surface and its first record is on the surface
C20_Witness ==
    /\ JustSaved
    /\ ball_y_initial < ball_landing_y
    /\ file.falling_object_position[0] = ball_landing_y
    /\ file.falling_object_position[file.rows - 1] = ball_landing_y

\* the ball of row k lies on the surface
BallLanded(k) == file.falling_object_position[k] = ball_landing_y

\* the error the integral of row k was updated with, times dt
IntegralStep(k) ==
    file.error_integral[k] - (IF k = 0 THEN 0 ELSE file.error_integral[k - 1])

\* C21: in every row, before and after the ball has landed, the error the
\* controller works on is ball_x minus the train position of that row: the
\* integral grows by that error times dt, and no other error (none that
\* depends on the height of the ball) gives the recorded terms.
C21_ErrorIsHorizontal ==
    JustSaved =>
       \A k \in 0..(file.rows - 1) :
          /\ IntegralStep(k) = FMul(ball_x - file.train_position[k], dt)
          /\ (BallLanded(k) /\ file.train_position[k] # ball_x /\ k > 0 =>
                 file.applied_force[k] - FMul(Kd, file.error_derivative[k])
                    = FMul(Kp, ball_x - file.train_position[k])
                        + FMul(Ki, file.error_integral[k]))

\* the ball is in the air in one row and has landed in a later one, and the
\* controller still works on a non-zero error there
C21_Witness ==
    /\ JustSaved
    /\ ~BallLanded(1) /\ IntegralStep(1) # 0
    /\ \E k \in 1..(file.rows - 1) :
          /\ BallLanded(k)
          /\ Abs(ball_x - file.train_position[k]) > Flt(1)
          /\ Abs(IntegralStep(k)) > 0

\* N = m g cos(angle), and the gravity component -m g sin(angle)
NormalForce == FMul(FMul(m, g), Cos(angle_deg))

GravityComponent == -FMul(FMul(m, g), Sin(angle_deg))

\* the acceleration of row k is that of the control force, the gravity
\* component and the friction f
AcceleratedWith(k, f) ==
    file.train_acceleration[k] = FDiv(file.applied_force[k] + f + GravityComponent, m)

\* the rule of the three bands, row by row
ThreeBands ==
    \A k \in 0..(file.rows - 1) :
       LET v == file.train_velocity[k]
       IN  /\ (v > FrictionDeadBand => AcceleratedWith(k, -FMul(mu, NormalForce)))
           /\ (v < -FrictionDeadBand => AcceleratedWith(k, FMul(mu, NormalForce)))
           /\ (Abs(v) <= FrictionDeadBand => AcceleratedWith(k, 0))

\* the friction of row k under that rule
BandFriction(k) ==
    IF file.train_velocity[k] > FrictionDeadBand THEN -FMul(mu, NormalForce)
    ELSE IF file.train_velocity[k] < -FrictionDeadBand THEN FMul(mu, NormalForce)
    ELSE 0

\* a and b are both positive or both negative: a * b > 0
SameSign(a, b) == (a > 0 /\ b > 0) \/ (a < 0 /\ b < 0)

C23_NetForceAcceleration ==
    JustSaved =>
       \A k \in 0..(file.rows - 1) :
          file.train_acceleration[k] =
             FDiv(file.applied_force[k] + BandFriction(k)
                      - FMul(FMul(m, g), Sin(angle_deg)), m)

\* on a slope: the train at rest at the origin in the first row, moving up
\* in a later row and down in another
C23_Witness ==
    /\ JustSaved
    /\ angle_deg > 0 /\ FMul(FMul(m, g), Sin(angle_deg)) > 0
    /\ file.train_position[0] = 0 /\ file.train_velocity[0] = 0
    /\ \E k \in 0..(file.rows - 1) : file.train_velocity[k] > FrictionDeadBand
    /\ \E k \in 0..(file.rows - 1) : file.train_velocity[k] < -FrictionDeadBand

\* C24: the state advances by semi-implicit Euler: in every row but the last
\* whose computed position is not behind the origin, the next velocity is
\* v + a dt and the next position is s plus the NEXT velocity times dt; the
\* last iteration advances nothing: the arrays end at row num_steps - 1.
C24_SemiImplicitEuler ==
    JustSaved =>
       /\ \A k \in 0..(file.rows - 2) :
             NextPosition(k) >= 0 =>
                /\ file.train_velocity[k + 1] =
                       file.train_velocity[k] + FMul(file.train_acceleration[k], dt)
                /\ file.train_position[k + 1] =
                       file.train_position[k] + FMul(file.train_velocity[k + 1], dt)
       /\ iterations = num_steps
       /\ DOMAIN file.train_position = 0..(num_steps - 1)
       /\ DOMAIN file.train_velocity = 0..(num_steps - 1)

\* a row from which the train moves on with a velocity that changed: the
\* position of the next row is not the one the old velocity would give
C24_Witness ==
    /\ JustSaved
    /\ \E k \in 0..(file.rows - 2) :
          /\ NextPosition(k) > 0
          /\ file.train_velocity[k + 1] # file.train_velocity[k]
          /\ file.train_position[k + 1] #
                 file.train_position[k] + FMul(file.train_velocity[k], dt)
    /\ file.train_acceleration[file.rows - 1] # 0

\* the row shown by the last call of animate
ShownRow == The(frame_indices)[frame_num]

\* C25: once the evaluator has left PENDING (ball_caught_at_frame is set) the
\* height the ball is drawn at is the surface height of the animation,
\* whatever the file holds for the frame shown; while it is PENDING the ball
\* is drawn at the height of the file, which is not below the surface.
C25_DisplayFrozenAtSurface ==
    frame_indices # None /\ frame_num > 0 =>
       IF ball_caught_at_frame # None
       THEN ball_display_y = Some(surface_y_at_ball_x)
       ELSE /\ ball_display_y = Some(file.falling_object_position[ShownRow])
            /\ file.falling_object_position[ShownRow] >= surface_y_at_ball_x

\* a frame after the terminal one whose height in the file is above the
\* surface
C25_Witness ==
    /\ frame_indices # None /\ frame_num > 1
    /\ ball_caught_at_frame # None
    /\ The(ball_caught_at_frame) < ShownRow
    /\ file.falling_object_position[ShownRow] > surface_y_at_ball_x
    /\ ball_display_y = Some(surface_y_at_ball_x)

\* C26 as stated: the error series the animation derives from the file of a
\* run is the error the run controlled on: in every row it is ball_x minus
\* the train position of the row.
C26_AsClaimed ==
    pc = "saved" /\ frame_indices # None =>
       \A k \in 0..(file.rows - 1) :
          AnimationError(k) = ball_x - file.train_position[k]

\* what parse_filename makes of the name of the file
params == The(parse_filename(file.name))

\* C27 as stated: the name of the file a call writes parses back to the
\* scenario number, angle, ball_x, ball_y_initial and train_x_initial of the
\* call, so that the landing height recomputed from the name is the one the
\* call clamped the ball to.
C27_AsClaimed ==
    pc = "saved" =>
       /\ parse_filename(file.name) # None
       /\ params.scenario = scenario_num
       /\ Flt(params.angle) = angle_deg
       /\ Flt(params.ball_x) = ball_x
       /\ Flt(params.ball_y) = ball_y_initial
       /\ Flt(params.train_x) = train_x_initial
       /\ FMul(Flt(params.ball_x), Tan(Flt(params.angle))) = ball_landing_y

\* animate has been called for every row of the file
EveryRowEvaluated ==
    /\ frame_indices # None
    /\ Len(The(frame_indices)) = file.rows
    /\ frame_num = file.rows

\* C28 as stated: on one file the classifiers agree: calculate_metrics
\* reports caught exactly when the evaluator of the animation, run over
\* every row, ends in CAUGHT, and analyze_comprehensive reports caught
\* exactly then too.
C28_AsClaimed ==
    EveryRowEvaluated =>
       /\ (metrics # None /\ The(metrics).selected
               /\ The(metrics).raised = NoException =>
              (The(metrics).caught <=> verdict = "CAUGHT"))
       /\ (comprehensive # None /\ The(comprehensive).in_results =>
              (The(comprehensive).caught <=> verdict = "CAUGHT"))

\* the frames of the animation, in the order animate is called for them
frames == The(frame_indices)

\* C29 as stated: when create_realtime_animation found a catch frame, the
\* frame list is strictly increasing and ends with it, and once animate has
\* shown that last frame the evaluator is no longer PENDING: it reports
\* CAUGHT.
C29_AsClaimed ==
    frame_indices # None /\ catch_frame # None =>
       /\ \A j \in 1..(Len(frames) - 1) : frames[j] < frames[j + 1]
       /\ frames[Len(frames)] = The(catch_frame)
       /\ (frame_num = Len(frames) =>
              ball_caught_at_frame # None /\ verdict = "CAUGHT")

\* C30: every scenario main passes to simulate_scenario has ball_x between 20
\* and 100 and 0 <= train_x_initial <= ball_x - 20: the train starts before
\* the ball, at least 20 m from it.
C30_MainKeepsSeparation ==
    /\ Flt(20) <= ball_x /\ ball_x <= Flt(100)
    /\ 0 <= train_x_initial
    /\ train_x_initial <= ball_x - TrainMargin
    /\ train_x_initial < ball_x

\* main has called simulate_scenario with the train almost as far along as
\* the draw allows, and with ball_x = 20, where only train_x_initial = 0 is left
C30_Witness ==
    /\ pc = "saved"
    /\ Len(history) = 2
    /\ history[1].configuration[2] = Flt(20) /\ history[1].configuration[4] = 0
    /\ train_x_initial > 0
    /\ ball_x - train_x_initial < Flt(21)

====
